---- MODULE Spec2Model ----
(***************************************************************************)
(* keep-in-touch: the interactive session of src/main.rs over an in-memory *)
(* KeePass tree.  Text is a sequence of code points, a field value is a    *)
(* record [prot, text], an entry's fields are a function from the field    *)
(* names it holds, and a group's children are a sequence of nodes.         *)
(***************************************************************************)
EXTENDS Integers, Sequences, FiniteSets, TLC

(* ------------------------------ text ---------------------------------- *)

\* Code points the program's literals are made of.
LF == 10
SPACE == 32
COMMA == 44
BACKSLASH == 92
LOWER_N == 110

\* The characters str::trim_end removes (White_Space, as far as the inputs go).
Whitespace == {9, 10, 13, 32}

\* str::to_lowercase, on ASCII.
ToLower(s) == [i \in 1..Len(s) |-> IF s[i] \in 65..90 THEN s[i] + 32 ELSE s[i]]

\* str::contains with a string pattern.
Contains(s, pat) ==
    \E i \in 0..(Len(s) - Len(pat)) : SubSeq(s, i + 1, i + Len(pat)) = pat

\* The first position at which pat occurs in s, or 0.
FirstMatch(s, pat) ==
    LET hits == {i \in 1..(Len(s) - Len(pat) + 1) : SubSeq(s, i, i + Len(pat) - 1) = pat}
    IN  IF hits = {} THEN 0 ELSE CHOOSE i \in hits : \A j \in hits : i <= j

\* str::split with a non-empty string pattern: the pieces between the
\* non-overlapping occurrences, leftmost first; always at least one piece.
RECURSIVE Split(_, _)
Split(s, pat) ==
    LET i == FirstMatch(s, pat)
    IN  IF i = 0 THEN <<s>>
        ELSE <<SubSeq(s, 1, i - 1)>> \o Split(SubSeq(s, i + Len(pat), Len(s)), pat)

\* str::trim_end.
RECURSIVE TrimEnd(_)
TrimEnd(s) ==
    IF s # <<>> /\ s[Len(s)] \in Whitespace THEN TrimEnd(SubSeq(s, 1, Len(s) - 1)) ELSE s

\* <str as Ord>::cmp is Less or Equal: byte-wise lexicographic order.
RECURSIVE StrLeq(_, _)
StrLeq(a, b) ==
    IF a = <<>> THEN TRUE
    ELSE IF b = <<>> THEN FALSE
    ELSE IF a[1] # b[1] THEN a[1] < b[1]
    ELSE StrLeq(Tail(a), Tail(b))

\* Vec<String>::join.
RECURSIVE Join(_, _)
Join(parts, sep) ==
    IF parts = <<>> THEN <<>>
    ELSE IF Len(parts) = 1 THEN parts[1]
    ELSE parts[1] \o sep \o Join(Tail(parts), sep)

(* --------------------------- field names ------------------------------ *)

\* "Title"
NAME_TAG_NAME == <<84, 105, 116, 108, 101>>
\* "Nickname"
NICKNAME_TAG_NAME == <<78, 105, 99, 107, 110, 97, 109, 101>>
\* "PhoneNumber"
PHONE_NUMBER_TAG_NAME == <<80, 104, 111, 110, 101, 78, 117, 109, 98, 101, 114>>
\* "Address"
ADDRESS_TAG_NAME == <<65, 100, 100, 114, 101, 115, 115>>
\* "Email"
EMAIL_TAG_NAME == <<69, 109, 97, 105, 108>>
\* "MatrixID"
MATRIX_ID_TAG_NAME == <<77, 97, 116, 114, 105, 120, 73, 68>>
\* "BirthDate"
BIRTH_DATE_TAG_NAME == <<66, 105, 114, 116, 104, 68, 97, 116, 101>>
\* "Notes"
NOTES_TAG_NAME == <<78, 111, 116, 101, 115>>

(* ------------------------------ entries ------------------------------- *)

\* Option<T>.
None == [some |-> FALSE, val |-> <<>>]
Some(v) == [some |-> TRUE, val |-> v]

\* Value::Unprotected and Value::Protected.
Unprotected(t) == [prot |-> FALSE, text |-> t]
Protected(t) == [prot |-> TRUE, text |-> t]

\* HashMap::insert on the entry's fields: the last write wins.
Insert(fields, name, value) ==
    [k \in (DOMAIN fields) \cup {name} |-> IF k = name THEN value ELSE fields[k]]

\* Uuid::to_string, for the ids of the model: "u" and a digit.
UuidToString(u) == <<117, 48 + u>>

\* Entry::get of the keepass crate: the text of the field, a protected value
\* unprotected on the way (the crate reads a password through it).
Get(entry, key) ==
    IF key \in DOMAIN entry.fields THEN Some(entry.fields[key].text) ELSE None

\* Entry::get_title.
GetTitle(entry) == Get(entry, NAME_TAG_NAME)

\* What the history keeps of an entry: its fields and its tags.
Snapshot(entry) == [fields |-> entry.fields, tags |-> entry.tags]

\* Entry::has_uncommitted_changes: no snapshot yet, or the entry differs from the
\* last one.
HasUncommittedChanges(entry) ==
    entry.history = <<>> \/ entry.history[1] # Snapshot(entry)

\* Entry::update_history: [changed, entry], the new snapshot first in the history.
UpdateHistory(entry) ==
    IF HasUncommittedChanges(entry)
    THEN [changed |-> TRUE,
          entry |-> [entry EXCEPT !.history = <<Snapshot(entry)>> \o entry.history]]
    ELSE [changed |-> FALSE, entry |-> entry]

\* Node::Entry and Node::Group.
EntryNode(uuid, fields, tags, history) ==
    [kind |-> "Entry", uuid |-> uuid, fields |-> fields, tags |-> tags,
     history |-> history, children |-> <<>>]
GroupNode(children) ==
    [kind |-> "Group", uuid |-> 0, fields |-> <<>>, tags |-> <<>>,
     history |-> <<>>, children |-> children]

\* Entry::new: no field, no tag, no history.
NewEntry(uuid) == EntryNode(uuid, <<>>, <<>>, <<>>)

(* ----------------------------- traversal ------------------------------ *)

\* A printed line: println!'s format string and the values it interpolates.
Line(fmt, args) == [fmt |-> fmt, args |-> args]

\* get_entry_by_uuid from the i-th node on: the path (child indices) to the first
\* entry in pre-order whose uuid prints as entry_uuid, or <<>> for no entry.
RECURSIVE GetEntryFrom(_, _, _)
GetEntryFrom(nodes, i, entry_uuid) ==
    IF i > Len(nodes) THEN <<>>
    ELSE IF nodes[i].kind = "Group"
         THEN LET p == GetEntryFrom(nodes[i].children, 1, entry_uuid)
              IN  IF p # <<>> THEN <<i>> \o p ELSE GetEntryFrom(nodes, i + 1, entry_uuid)
         ELSE IF UuidToString(nodes[i].uuid) = entry_uuid THEN <<i>>
              ELSE GetEntryFrom(nodes, i + 1, entry_uuid)

GetEntryByUuid(nodes, entry_uuid) == GetEntryFrom(nodes, 1, entry_uuid)

\* The node a path leads to: what the returned &mut Entry borrows.
RECURSIVE NodeAt(_, _)
NodeAt(nodes, path) ==
    IF Len(path) = 1 THEN nodes[path[1]] ELSE NodeAt(nodes[path[1]].children, Tail(path))

\* The tree after a write through the borrowed entry.
RECURSIVE ReplaceAt(_, _, _)
ReplaceAt(nodes, path, entry) ==
    IF Len(path) = 1 THEN [nodes EXCEPT ![path[1]] = entry]
    ELSE [nodes EXCEPT ![path[1]].children = ReplaceAt(nodes[path[1]].children, Tail(path), entry)]

\* The lines search_entries prints for one entry.
SearchEntry(entry, search_term) ==
    LET title == GetTitle(entry)
        entry_title == IF title.some THEN title.val ELSE UuidToString(entry.uuid)
        nickname == Get(entry, NICKNAME_TAG_NAME)
        phone_number == Get(entry, PHONE_NUMBER_TAG_NAME)
    IN  (IF title.some /\ Contains(ToLower(title.val), search_term)
         THEN <<Line("{} {}", <<UuidToString(entry.uuid), title.val>>)>> ELSE <<>>)
        \o
        (IF nickname.some /\ Contains(ToLower(nickname.val), search_term)
         THEN <<Line("{} {} {}", <<entry_title, UuidToString(entry.uuid), nickname.val>>)>>
         ELSE <<>>)
        \o
        (IF phone_number.some /\ Contains(phone_number.val, search_term)
         THEN <<Line("{} {} {}", <<entry_title, UuidToString(entry.uuid), phone_number.val>>)>>
         ELSE <<>>)

\* search_entries: the lines printed, in visit order.
RECURSIVE SearchEntries(_, _)
SearchEntries(nodes, search_term) ==
    IF nodes = <<>> THEN <<>>
    ELSE LET term == ToLower(search_term)
             node == Head(nodes)
         IN  (IF node.kind = "Group" THEN SearchEntries(node.children, term)
              ELSE SearchEntry(node, term))
             \o SearchEntries(Tail(nodes), term)

\* Vec<String>::contains.
VecContains(v, x) == \E i \in 1..Len(v) : v[i] = x

\* get_matching_entries without the test of the title.
RECURSIVE GetMatchingEntriesUntitled(_, _)
GetMatchingEntriesUntitled(nodes, tag_option) ==
    IF nodes = <<>> THEN <<>>
    ELSE LET node == Head(nodes)
         IN  (IF node.kind = "Group" THEN GetMatchingEntriesUntitled(node.children, tag_option)
              ELSE IF tag_option.some
                   THEN (IF VecContains(node.tags, tag_option.val) THEN <<node>> ELSE <<>>)
                   ELSE <<node>>)
             \o GetMatchingEntriesUntitled(Tail(nodes), tag_option)

\* get_matching_entries: clones of the titled entries, those carrying the tag
\* when one is given, in visit order.
RECURSIVE GetMatchingEntries(_, _)
GetMatchingEntries(nodes, tag_option) ==
    IF nodes = <<>> THEN <<>>
    ELSE LET node == Head(nodes)
         IN  (IF node.kind = "Group" THEN GetMatchingEntries(node.children, tag_option)
              ELSE IF ~GetTitle(node).some THEN <<>>
              ELSE IF tag_option.some
                   THEN (IF VecContains(node.tags, tag_option.val) THEN <<node>> ELSE <<>>)
                   ELSE <<node>>)
             \o GetMatchingEntries(Tail(nodes), tag_option)

\* One insertion of the stable sort: e goes after every element not greater.
RECURSIVE InsertByTitle(_, _)
InsertByTitle(e, sorted) ==
    IF sorted = <<>> THEN <<e>>
    ELSE IF StrLeq(GetTitle(Head(sorted)).val, GetTitle(e).val)
         THEN <<Head(sorted)>> \o InsertByTitle(e, Tail(sorted))
         ELSE <<e>> \o sorted

\* Vec::sort_by on the titles: a stable sort.
RECURSIVE SortByTitle(_)
SortByTitle(entries) ==
    IF entries = <<>> THEN <<>>
    ELSE InsertByTitle(entries[Len(entries)], SortByTitle(SubSeq(entries, 1, Len(entries) - 1)))

\* display_entries: [panic, lines].  get_title().unwrap() panics on an entry
\* without a title, in the comparison or, for a single entry, in the println.
DisplayEntries(nodes, tag_option) ==
    LET matching_entries == GetMatchingEntries(nodes, tag_option)
    IN  IF \E i \in 1..Len(matching_entries) : ~GetTitle(matching_entries[i]).some
        THEN [panic |-> TRUE, lines |-> <<>>]
        ELSE LET sorted == SortByTitle(matching_entries)
             IN  [panic |-> FALSE,
                  lines |-> [i \in 1..Len(sorted) |->
                               Line("{} {}", <<UuidToString(sorted[i].uuid),
                                               GetTitle(sorted[i]).val>>)]]

(* ----------------------------- vCard ---------------------------------- *)

\* "BEGIN:VCARD\n"
BEGIN_VCARD == <<66, 69, 71, 73, 78, 58, 86, 67, 65, 82, 68, 10>>
\* "VERSION:4.0\n"
VERSION_4 == <<86, 69, 82, 83, 73, 79, 78, 58, 52, 46, 48, 10>>
\* "UID:urn:uuid:"
UID_PREFIX == <<85, 73, 68, 58, 117, 114, 110, 58, 117, 117, 105, 100, 58>>
\* "FN:"
FN_PREFIX == <<70, 78, 58>>
\* "TEL:"
TEL_PREFIX == <<84, 69, 76, 58>>
\* "EMAIL:"
EMAIL_PREFIX == <<69, 77, 65, 73, 76, 58>>
\* "END:VCARD"
END_VCARD == <<69, 78, 68, 58, 86, 67, 65, 82, 68>>

\* The EMAIL line of dump_entry_to_vcard, or nothing.
DumpEmail(entry) ==
    IF EMAIL_TAG_NAME \in DOMAIN entry.fields /\ ~entry.fields[EMAIL_TAG_NAME].prot
    THEN EMAIL_PREFIX \o entry.fields[EMAIL_TAG_NAME].text \o <<LF>>
    ELSE <<>>

\* dump_entry_to_vcard that writes the TEL line without looking at the
\* protection of the phone number.
DumpEntryToVcardAnyPhone(entry) ==
    LET title == GetTitle(entry)
    IN  IF ~title.some THEN None
        ELSE IF PHONE_NUMBER_TAG_NAME \notin DOMAIN entry.fields THEN None
        ELSE Some(BEGIN_VCARD \o VERSION_4
                  \o UID_PREFIX \o UuidToString(entry.uuid) \o <<LF>>
                  \o FN_PREFIX \o title.val \o <<LF>>
                  \o TEL_PREFIX \o entry.fields[PHONE_NUMBER_TAG_NAME].text \o <<LF>>
                  \o DumpEmail(entry)
                  \o END_VCARD \o <<LF>> \o <<LF>>)

\* dump_entry_to_vcard: Option<String>.
DumpEntryToVcard(entry) ==
    LET title == GetTitle(entry)
    IN  IF ~title.some THEN None
        ELSE IF PHONE_NUMBER_TAG_NAME \notin DOMAIN entry.fields THEN None
        ELSE IF entry.fields[PHONE_NUMBER_TAG_NAME].prot THEN None
        ELSE Some(BEGIN_VCARD \o VERSION_4
                  \o UID_PREFIX \o UuidToString(entry.uuid) \o <<LF>>
                  \o FN_PREFIX \o title.val \o <<LF>>
                  \o TEL_PREFIX \o entry.fields[PHONE_NUMBER_TAG_NAME].text \o <<LF>>
                  \o DumpEmail(entry)
                  \o END_VCARD \o <<LF>> \o <<LF>>)

\* dump_group_to_vcard that encodes the entries of the group and not those of
\* its sub-groups.
DumpGroupToVcardFlat(children) ==
    LET RECURSIVE From(_)
        From(i) ==
            IF i > Len(children) THEN <<>>
            ELSE (IF children[i].kind = "Entry" /\ DumpEntryToVcard(children[i]).some
                  THEN DumpEntryToVcard(children[i]).val ELSE <<>>)
                 \o From(i + 1)
    IN  From(1)

\* dump_group_to_vcard, on the group's children.
RECURSIVE DumpGroupToVcard(_)
DumpGroupToVcard(children) ==
    IF children = <<>> THEN <<>>
    ELSE LET node == Head(children)
         IN  (IF node.kind = "Entry"
              THEN (IF DumpEntryToVcard(node).some THEN DumpEntryToVcard(node).val ELSE <<>>)
              ELSE DumpGroupToVcard(node.children))
             \o DumpGroupToVcard(Tail(children))

\* File::options().create(true).write(true).open(path) and write_all: the bytes
\* are written from offset 0 over what the file holds; nothing truncates it.
WriteFile(file, bytes) ==
    [exists |-> TRUE,
     data |-> IF file.exists /\ Len(file.data) > Len(bytes)
              THEN bytes \o SubSeq(file.data, Len(bytes) + 1, Len(file.data))
              ELSE bytes]

(* ------------------------- external editor ---------------------------- *)

\* Each piece followed by suffix, concatenated.
RECURSIVE EachFollowedBy(_, _)
EachFollowedBy(parts, suffix) ==
    IF parts = <<>> THEN <<>>
    ELSE Head(parts) \o suffix \o EachFollowedBy(Tail(parts), suffix)

\* What edit_notes writes to the editor's stdin: every line of the notes
\* followed by a backslash and an n.
EditNotesInput(notes) == EachFollowedBy(Split(notes, <<LF>>), <<BACKSLASH, LOWER_N>>)

\* What edit_notes makes of the editor's stdout.
EditNotesResponse(stdout) ==
    TrimEnd(EachFollowedBy(Split(stdout, <<BACKSLASH, LOWER_N>>), <<LF>>))

\* What the session saw of the editor: status "none" (not run), "spawn_failed",
\* "failed" (a non-zero exit), "bad_output" (stdout is not UTF-8) or "ok"; the
\* bytes written to its stdin and the text read from its stdout.
NoEditor == [status |-> "none", input |-> <<>>, stdout |-> <<>>]
Editor(status, input, stdout) == [status |-> status, input |-> input, stdout |-> stdout]

\* edit_notes against one run of the editor.  run.spawned: the process started;
\* run.success: it exited with status 0; run.echo: it wrote back what it read,
\* else run.stdout; run.stdout_utf8, run.stderr_utf8: the stream is valid UTF-8.
\* The result is "ok" with the text, "err" (a Result::Err, with the message the
\* caller prints; the editor's own diagnostic is not modelled), or "panic"
\* (String::from_utf8(output.stderr).unwrap() on a stderr that is not UTF-8).
EditNotes(entry_title, notes, run) ==
    LET input == EditNotesInput(notes)
        stdout == IF run.echo THEN input ELSE run.stdout
        io_error == Line("{}", <<>>)
    IN  IF ~run.spawned
        THEN [kind |-> "err", text |-> <<>>, message |-> io_error,
              editor |-> Editor("spawn_failed", <<>>, <<>>)]
        ELSE IF ~run.success
             THEN [kind |-> IF run.stderr_utf8 THEN "err" ELSE "panic", text |-> <<>>,
                   message |-> Line("Could not edit notes for {}: {}", <<entry_title>>),
                   editor |-> Editor("failed", input, <<>>)]
        ELSE IF ~run.stdout_utf8
             THEN [kind |-> "err", text |-> <<>>, message |-> io_error,
                   editor |-> Editor("bad_output", input, <<>>)]
        ELSE [kind |-> "ok", text |-> EditNotesResponse(stdout), message |-> io_error,
              editor |-> Editor("ok", input, stdout)]

(* ------------------------------- show --------------------------------- *)

\* str::starts_with.
StartsWith(s, prefix) == Len(s) >= Len(prefix) /\ SubSeq(s, 1, Len(prefix)) = prefix

\* The names of a set, ascending.
RECURSIVE Ascending(_)
Ascending(names) ==
    IF names = {} THEN <<>>
    ELSE LET m == CHOOSE x \in names : \A y \in names : StrLeq(x, y)
         IN  <<m>> \o Ascending(names \ {m})

Reverse(s) == [i \in 1..Len(s) |-> s[Len(s) + 1 - i]]

\* HashMap::keys: the iteration order is the hasher's; the model lets it be the
\* names ascending or descending.
Keys(fields, descending) ==
    IF descending THEN Reverse(Ascending(DOMAIN fields)) ELSE Ascending(DOMAIN fields)

\* "{}: {}" for a field the entry holds, nothing otherwise.
ShowField(entry, name) ==
    IF Get(entry, name).some THEN <<Line("{}: {}", <<name, Get(entry, name).val>>)>> ELSE <<>>

\* The "multi fields" loop: the fields whose name starts with, and is not, prefix.
RECURSIVE ShowMultiFields(_, _, _)
ShowMultiFields(entry, keys, prefix) ==
    IF keys = <<>> THEN <<>>
    ELSE (IF StartsWith(Head(keys), prefix) /\ Head(keys) # prefix
          THEN <<Line("{}: {}", <<Head(keys), Get(entry, Head(keys)).val>>)>> ELSE <<>>)
         \o ShowMultiFields(entry, Tail(keys), prefix)

\* What show_entry prints for the entry it found (the modification time is not
\* modelled: its line is printed without it).
ShowLines(entry, descending) ==
    <<Line("UUID: {}", <<UuidToString(entry.uuid)>>),
      Line("Last Modification Time: {}", <<>>),
      Line("Name: {}", <<Get(entry, NAME_TAG_NAME).val>>)>>
    \o ShowField(entry, NICKNAME_TAG_NAME)
    \o ShowField(entry, PHONE_NUMBER_TAG_NAME)
    \o ShowMultiFields(entry, Keys(entry.fields, descending), PHONE_NUMBER_TAG_NAME)
    \o ShowField(entry, ADDRESS_TAG_NAME)
    \o ShowField(entry, EMAIL_TAG_NAME)
    \o ShowMultiFields(entry, Keys(entry.fields, descending), EMAIL_TAG_NAME)
    \o ShowField(entry, MATRIX_ID_TAG_NAME)
    \o ShowField(entry, BIRTH_DATE_TAG_NAME)
    \o (IF entry.tags # <<>> THEN <<Line("Tags: {}", <<Join(entry.tags, <<COMMA>>)>>)>> ELSE <<>>)
    \o (IF Get(entry, NOTES_TAG_NAME).some
        THEN <<Line("--- {} ---", <<NOTES_TAG_NAME>>),
               Line("{}", <<Get(entry, NOTES_TAG_NAME).val>>),
               Line("-------------", <<>>)>>
        ELSE <<>>)

\* show_entry: [found, panic, lines].  An entry without a title panics at
\* entry.get(NAME_TAG_NAME).unwrap(), after the first two lines.
RECURSIVE ShowEntry(_, _, _)
ShowEntry(nodes, uuid, descending) ==
    IF nodes = <<>> THEN [found |-> FALSE, panic |-> FALSE, lines |-> <<>>]
    ELSE LET node == Head(nodes)
         IN  IF node.kind = "Group"
             THEN LET sub == ShowEntry(node.children, uuid, descending)
                  IN  IF sub.found \/ sub.panic THEN sub
                      ELSE ShowEntry(Tail(nodes), uuid, descending)
             ELSE IF UuidToString(node.uuid) = uuid
                  THEN (IF Get(node, NAME_TAG_NAME).some
                        THEN [found |-> TRUE, panic |-> FALSE,
                              lines |-> ShowLines(node, descending)]
                        ELSE [found |-> FALSE, panic |-> TRUE,
                              lines |-> <<Line("UUID: {}", <<UuidToString(node.uuid)>>),
                                          Line("Last Modification Time: {}", <<>>)>>])
                  ELSE ShowEntry(Tail(nodes), uuid, descending)

(* ----------------------------- arguments ------------------------------ *)

\* One argument of a command line as clap sees it: a positional value, an option
\* with its value ("opt", such as --tag T), or an option whose value is missing
\* ("flag").
Pos(v) == [kind |-> "pos", name |-> "", val |-> v]
Opt(n, v) == [kind |-> "opt", name |-> n, val |-> v]
Flag(n) == [kind |-> "flag", name |-> n, val |-> <<>>]

\* The positional values of an argument list, in order.
RECURSIVE Positionals(_)
Positionals(args) ==
    IF args = <<>> THEN <<>>
    ELSE (IF Head(args).kind = "pos" THEN <<Head(args).val>> ELSE <<>>)
         \o Positionals(Tail(args))

\* Command::try_get_matches_from: the arguments match when every required
\* positional and no other is given and each option is a declared one, given at
\* most once, with its value.
TryGetMatchesFrom(args, required, options) ==
    /\ Len(Positionals(args)) = required
    /\ \A i \in 1..Len(args) : args[i].kind # "flag"
    /\ \A i \in 1..Len(args) : args[i].kind = "opt" => args[i].name \in options
    /\ \A i, j \in 1..Len(args) :
           (args[i].kind = "opt" /\ args[j].kind = "opt" /\ args[i].name = args[j].name)
               => i = j

\* ArgMatches::get_one for an option.
GetOne(args, name) ==
    IF \E i \in 1..Len(args) : args[i].kind = "opt" /\ args[i].name = name
    THEN Some(args[CHOOSE i \in 1..Len(args) : args[i].kind = "opt" /\ args[i].name = name].val)
    ELSE None

\* The tokens shellwords::split gives for an argument list: an option and its
\* value are two.
RECURSIVE Tokens(_)
Tokens(args) ==
    IF args = <<>> THEN <<>>
    ELSE (IF Head(args).kind = "opt" THEN <<<<45, 45>>, Head(args).val>>
          ELSE IF Head(args).kind = "flag" THEN <<<<45, 45>>>>
          ELSE <<Head(args).val>>)
         \o Tokens(Tail(args))

\* Error::print of a clap error.
ClapError == Line("{clap error}", <<>>)

\* The command names the dispatcher matches.
\* "ls"
CMD_LS == <<108, 115>>
\* "show"
CMD_SHOW == <<115, 104, 111, 119>>
\* "search"
CMD_SEARCH == <<115, 101, 97, 114, 99, 104>>
\* "add"
CMD_ADD == <<97, 100, 100>>
\* "export-vcard"
CMD_EXPORT_VCARD == <<101, 120, 112, 111, 114, 116, 45, 118, 99, 97, 114, 100>>
\* "edit-notes"
CMD_EDIT_NOTES == <<101, 100, 105, 116, 45, 110, 111, 116, 101, 115>>
\* "edit-field"
CMD_EDIT_FIELD == <<101, 100, 105, 116, 45, 102, 105, 101, 108, 100>>
\* "edit"
CMD_EDIT == <<101, 100, 105, 116>>
\* "help"
CMD_HELP == <<104, 101, 108, 112>>
\* "?"
CMD_QUESTION == <<63>>
\* "exit"
CMD_EXIT == <<101, 120, 105, 116>>

CommandNames ==
    {CMD_LS, CMD_SHOW, CMD_SEARCH, CMD_ADD, CMD_EXPORT_VCARD, CMD_EDIT_NOTES,
     CMD_EDIT_FIELD, CMD_EDIT, CMD_HELP, CMD_QUESTION, CMD_EXIT}

(* ------------------------------ session ------------------------------- *)

VARIABLES
    state,        \* "Idle", "AwaitingInput" or "Terminated"
    exitKind,     \* how the process ended: "none", "exit", "eof", "interrupted",
                  \* "readline" (the loop was left), "error" (main returned Err), "panic"
    db,           \* db.root.children: the in-memory tree
    stored,       \* the tree the database file holds
    files,        \* the export paths: [exists, data]
    steps,        \* lines read so far
    cmd,          \* the last line read: [quotes_ok, name, args]
    out,          \* the lines the last command printed
    save,         \* the last command's request to persist: "none" (no request), "ok",
                  \* "open_failed" (File::options().write(true).open failed) or
                  \* "save_failed" (db.save failed)
    editor        \* what the last command saw of the external editor

vars == <<state, exitKind, db, stored, files, steps, cmd, out, save, editor>>

\* Bounds of the model.
MaxSteps == 2
MaxUuid == 5
OldFileLen == 130

\* A line: the tokens if the quotes balance, the first one being the command.
InputLine(name, args) == [quotes_ok |-> TRUE, name |-> name, args |-> args]
UnbalancedLine == [quotes_ok |-> FALSE, name |-> <<>>, args |-> <<>>]
NoLine == [quotes_ok |-> TRUE, name |-> <<>>, args |-> <<>>]

\* The outcomes of File::options().write(true).open(&database_path)? and
\* db.save(...)?.
SaveOutcomes == {"ok", "open_failed", "save_failed"}

\* The uuids of the entries of a tree.
RECURSIVE Uuids(_)
Uuids(nodes) ==
    IF nodes = <<>> THEN {}
    ELSE (IF Head(nodes).kind = "Group" THEN Uuids(Head(nodes).children)
          ELSE {Head(nodes).uuid})
         \cup Uuids(Tail(nodes))

\* The loop is waiting for a line.
Ready == state = "AwaitingInput" /\ steps < MaxSteps

\* The end of one turn of the loop: the line read, what was printed, the tree,
\* the persistence request and how the turn leaves the loop.  A request that
\* fails returns the error from main.
Turn(line, lines, tree, request, edited, ending) ==
    /\ cmd' = line
    /\ out' = lines
    /\ db' = tree
    /\ save' = request
    /\ stored' = IF request = "ok" THEN tree ELSE stored
    /\ editor' = edited
    /\ steps' = steps + 1
    /\ exitKind' = IF request \in {"open_failed", "save_failed"} THEN "error" ELSE ending
    /\ state' = IF request \in {"open_failed", "save_failed"} \/ ending # "none"
                THEN "Terminated" ELSE "AwaitingInput"

\* A turn that prints and touches nothing else.
Prints(line, lines) == Turn(line, lines, db, "none", NoEditor, "none")

\* A turn that unwinds: a panic, or an error returned from main with `?`.
Aborts(line, lines, ending) == Turn(line, lines, db, "none", NoEditor, ending)

\* Database::open(...)?: the session starts on the stored tree, or main returns
\* the error.
OpenStore(opened) ==
    /\ state = "Idle"
    /\ state' = IF opened THEN "AwaitingInput" ELSE "Terminated"
    /\ exitKind' = IF opened THEN "none" ELSE "error"
    /\ db' = IF opened THEN stored ELSE db
    /\ UNCHANGED <<stored, files, steps, cmd, out, save, editor>>

\* readline returned Err: Interrupted, Eof or another error; the loop ends.
ReadlineError(kind) ==
    /\ Ready
    /\ Aborts(NoLine, <<Line(kind, <<>>)>>, IF kind = "CTRL-C" THEN "interrupted"
                                              ELSE IF kind = "CTRL-D" THEN "eof"
                                              ELSE "readline")
    /\ UNCHANGED files

\* shellwords::split(&line)? on a line whose quotes do not balance.
SplitError ==
    /\ Ready
    /\ Aborts(UnbalancedLine, <<>>, "error")
    /\ UNCHANGED files

\* args.is_empty(): continue.
EmptyLine ==
    /\ Ready
    /\ Prints(NoLine, <<>>)
    /\ UNCHANGED files

\* "ls"
Ls(args) ==
    /\ Ready
    /\ LET line == InputLine(CMD_LS, args)
       IN  IF TryGetMatchesFrom(args, 0, {"t"})
           THEN LET shown == DisplayEntries(db, GetOne(args, "t"))
                IN  IF shown.panic THEN Aborts(line, shown.lines, "panic")
                    ELSE Prints(line, shown.lines)
           ELSE Prints(line, <<ClapError>>)
    /\ UNCHANGED files

\* "show"
Show(args, descending) ==
    /\ Ready
    /\ LET line == InputLine(CMD_SHOW, args)
           command_args == Tokens(args)
           complaint == IF Len(command_args) # 1
                        THEN <<Line("Invalid number of arguments.", <<>>)>> ELSE <<>>
       IN  IF command_args = <<>> THEN Aborts(line, complaint, "panic")
           ELSE LET entry_uuid == command_args[1]
                    shown == ShowEntry(db, entry_uuid, descending)
                IN  IF shown.panic THEN Aborts(line, complaint \o shown.lines, "panic")
                    ELSE IF shown.found THEN Prints(line, complaint \o shown.lines)
                    ELSE Prints(line, complaint \o shown.lines
                                      \o <<Line("Could not find entry {}", <<entry_uuid>>)>>)
    /\ UNCHANGED files

\* "search"
Search(args) ==
    /\ Ready
    /\ LET line == InputLine(CMD_SEARCH, args)
       IN  IF TryGetMatchesFrom(args, 1, {})
           THEN Prints(line, SearchEntries(db, Positionals(args)[1]))
           ELSE Prints(line, <<ClapError>>)
    /\ UNCHANGED files

\* "add" that puts the new entry first among the root group's children.
AddAtFront(args, uuid, outcome) ==
    /\ Ready
    /\ uuid \notin Uuids(db)
    /\ LET line == InputLine(CMD_ADD, args)
       IN  IF TryGetMatchesFrom(args, 1, {})
           THEN LET name == Positionals(args)[1]
                    new_entry == [NewEntry(uuid) EXCEPT
                                    !.fields = Insert(@, NAME_TAG_NAME, Unprotected(name))]
                    tree == <<UpdateHistory(new_entry).entry>> \o db
                IN  Turn(line,
                         IF outcome = "ok"
                         THEN <<Line("Entry {} was added to the database.",
                                     <<UuidToString(uuid)>>)>>
                         ELSE <<>>,
                         tree, outcome, NoEditor, "none")
           ELSE Prints(line, <<ClapError>>)
    /\ UNCHANGED files

\* "add": uuid is the random one Entry::new draws, taken to be one no entry of
\* the tree has.
Add(args, uuid, outcome) ==
    /\ Ready
    /\ uuid \notin Uuids(db)
    /\ LET line == InputLine(CMD_ADD, args)
       IN  IF TryGetMatchesFrom(args, 1, {})
           THEN LET name == Positionals(args)[1]
                    new_entry == [NewEntry(uuid) EXCEPT
                                    !.fields = Insert(@, NAME_TAG_NAME, Unprotected(name))]
                    tree == Append(db, UpdateHistory(new_entry).entry)
                IN  Turn(line,
                         IF outcome = "ok"
                         THEN <<Line("Entry {} was added to the database.",
                                     <<UuidToString(uuid)>>)>>
                         ELSE <<>>,
                         tree, outcome, NoEditor, "none")
           ELSE Prints(line, <<ClapError>>)
    /\ UNCHANGED files

\* "export-vcard": writable says whether the file could be opened and written
\* (File::options().create(true).write(true).open(..)? and write_all(..)?).
ExportVcard(args, writable) ==
    /\ Ready
    /\ LET line == InputLine(CMD_EXPORT_VCARD, args)
       IN  IF TryGetMatchesFrom(args, 1, {})
           THEN LET vcard_dump == DumpGroupToVcard(db)
                    out_path == Positionals(args)[1]
                IN  IF writable /\ out_path \in DOMAIN files
                    THEN /\ files' = [files EXCEPT ![out_path] = WriteFile(@, vcard_dump)]
                         /\ Prints(line, <<Line("The contacts were exported to {}",
                                                <<out_path>>)>>)
                    ELSE /\ UNCHANGED files
                         /\ Aborts(line, <<>>, "error")
           ELSE /\ UNCHANGED files
                /\ Prints(line, <<ClapError>>)

\* CommitEdit without the gate: the save is requested whatever update_history says.
CommitEditAlwaysSaves(line, path, entry, edited, outcome) ==
    Turn(line, <<Line("The entry was modified. Saving the database.", <<>>)>>,
         ReplaceAt(db, path, UpdateHistory(entry).entry), outcome, edited, "none")

\* The gate the three edit commands end with: entry.update_history(), and the
\* save when it says the entry changed.
CommitEdit(line, path, entry, edited, outcome) ==
    LET tracked == UpdateHistory(entry)
        tree == ReplaceAt(db, path, tracked.entry)
    IN  IF tracked.changed
        THEN Turn(line, <<Line("The entry was modified. Saving the database.", <<>>)>>,
                  tree, outcome, edited, "none")
        ELSE Turn(line, <<Line("The entry was not modified.", <<>>)>>,
                  tree, "none", edited, "none")

\* "edit-notes": run is the editor's behaviour.
EditNotesCommand(args, run, outcome) ==
    /\ Ready
    /\ LET line == InputLine(CMD_EDIT_NOTES, args)
       IN  IF TryGetMatchesFrom(args, 1, {})
           THEN LET uuid == Positionals(args)[1]
                    path == GetEntryByUuid(db, uuid)
                IN  IF path = <<>> THEN Aborts(line, <<>>, "panic")
                    ELSE LET entry == NodeAt(db, path)
                             notes == IF NOTES_TAG_NAME \in DOMAIN entry.fields
                                      THEN entry.fields[NOTES_TAG_NAME]
                                      ELSE Unprotected(<<>>)
                         IN  IF notes.prot THEN Prints(line, <<>>)
                             ELSE IF ~GetTitle(entry).some THEN Aborts(line, <<>>, "panic")
                             ELSE LET edited == EditNotes(GetTitle(entry).val, notes.text, run)
                                  IN  CASE edited.kind = "panic" ->
                                               Turn(line, <<>>, db, "none", edited.editor,
                                                    "panic")
                                        [] edited.kind = "err" ->
                                               Turn(line, <<edited.message>>, db, "none",
                                                    edited.editor, "none")
                                        [] OTHER ->
                                               CommitEdit(line, path,
                                                   [entry EXCEPT !.fields =
                                                       Insert(@, NOTES_TAG_NAME,
                                                              Unprotected(edited.text))],
                                                   edited.editor, outcome)
           ELSE Prints(line, <<ClapError>>)
    /\ UNCHANGED files

\* "edit-field"
EditField(args, outcome) ==
    /\ Ready
    /\ LET line == InputLine(CMD_EDIT_FIELD, args)
       IN  IF TryGetMatchesFrom(args, 3, {})
           THEN LET uuid == Positionals(args)[1]
                    field_name == Positionals(args)[2]
                    field_value == Positionals(args)[3]
                    path == GetEntryByUuid(db, uuid)
                IN  IF path = <<>> THEN Aborts(line, <<>>, "panic")
                    ELSE CommitEdit(line, path,
                                    [NodeAt(db, path) EXCEPT !.fields =
                                        Insert(@, field_name, Unprotected(field_value))],
                                    NoEditor, outcome)
           ELSE Prints(line, <<ClapError>>)
    /\ UNCHANGED files

\* One flag of "edit": the field is set when the flag is given.
SetIfGiven(entry, args, flag, field) ==
    IF GetOne(args, flag).some
    THEN [entry EXCEPT !.fields = Insert(@, field, Unprotected(GetOne(args, flag).val))]
    ELSE entry

\* ApplyEditFlags that pushes the new tags onto the entry's tags instead of
\* replacing them.
ApplyEditFlagsKeepingTags(entry, args) ==
    LET e1 == SetIfGiven(entry, args, "b", BIRTH_DATE_TAG_NAME)
        e2 == SetIfGiven(e1, args, "a", ADDRESS_TAG_NAME)
        e3 == SetIfGiven(e2, args, "e", EMAIL_TAG_NAME)
        e4 == SetIfGiven(e3, args, "p", PHONE_NUMBER_TAG_NAME)
        e5 == SetIfGiven(e4, args, "m", MATRIX_ID_TAG_NAME)
        e6 == SetIfGiven(e5, args, "n", NICKNAME_TAG_NAME)
    IN  IF GetOne(args, "t").some
        THEN [e6 EXCEPT !.tags = @ \o Split(GetOne(args, "t").val, <<COMMA>>)]
        ELSE e6

\* The flags of "edit" applied to the entry, in the order of the code.
ApplyEditFlags(entry, args) ==
    LET e1 == SetIfGiven(entry, args, "b", BIRTH_DATE_TAG_NAME)
        e2 == SetIfGiven(e1, args, "a", ADDRESS_TAG_NAME)
        e3 == SetIfGiven(e2, args, "e", EMAIL_TAG_NAME)
        e4 == SetIfGiven(e3, args, "p", PHONE_NUMBER_TAG_NAME)
        e5 == SetIfGiven(e4, args, "m", MATRIX_ID_TAG_NAME)
        e6 == SetIfGiven(e5, args, "n", NICKNAME_TAG_NAME)
    IN  IF GetOne(args, "t").some
        THEN [e6 EXCEPT !.tags = Split(GetOne(args, "t").val, <<COMMA>>)]
        ELSE e6

\* "edit"
Edit(args, outcome) ==
    /\ Ready
    /\ LET line == InputLine(CMD_EDIT, args)
       IN  IF TryGetMatchesFrom(args, 1, {"b", "a", "m", "n", "p", "t", "e"})
           THEN LET uuid == Positionals(args)[1]
                    path == GetEntryByUuid(db, uuid)
                IN  IF path = <<>> THEN Aborts(line, <<>>, "panic")
                    ELSE CommitEdit(line, path, ApplyEditFlags(NodeAt(db, path), args),
                                    NoEditor, outcome)
           ELSE Prints(line, <<ClapError>>)
    /\ UNCHANGED files

\* print_available_commands.
AvailableCommands ==
    <<Line("ls - List all the contacts", <<>>),
      Line("search - Search for a contact", <<>>),
      Line("add - Add a new contact", <<>>),
      Line("show - Show a contact's information", <<>>),
      Line("edit - Edit a contact", <<>>),
      Line("export-vcard - Export the database to vcard v4 format", <<>>),
      Line("edit-field - Edit a custom field on a contact", <<>>),
      Line("edit-notes - Edit the notes of a contact", <<>>),
      Line("help - Display the help for a command", <<>>),
      Line("? - Print the list of available commands", <<>>),
      Line("exit - Exit the application", <<>>)>>

\* "help" => {}
Help(args) ==
    /\ Ready
    /\ Prints(InputLine(CMD_HELP, args), <<>>)
    /\ UNCHANGED files

\* "?"
QuestionMark(args) ==
    /\ Ready
    /\ Prints(InputLine(CMD_QUESTION, args), AvailableCommands)
    /\ UNCHANGED files

\* "exit" => break
Exit(args) ==
    /\ Ready
    /\ Aborts(InputLine(CMD_EXIT, args), <<>>, "exit")
    /\ UNCHANGED files

\* Any other first token.
InvalidCommand(name, args) ==
    /\ Ready
    /\ name \notin CommandNames
    /\ Prints(InputLine(name, args), <<Line("Invalid command {}", <<name>>)>>)
    /\ UNCHANGED files

(* --------------------------- initial stores --------------------------- *)

\* An entry whose last snapshot is its present state.
Committed(uuid, fields, tags) ==
    EntryNode(uuid, fields, tags, <<[fields |-> fields, tags |-> tags]>>)

\* A field map from up to four names and values.
Fields1(n1, v1) == Insert(<<>>, n1, v1)
Fields2(n1, v1, n2, v2) == Insert(Fields1(n1, v1), n2, v2)
Fields3(n1, v1, n2, v2, n3, v3) == Insert(Fields2(n1, v1, n2, v2), n3, v3)
Fields4(n1, v1, n2, v2, n3, v3, n4, v4) == Insert(Fields3(n1, v1, n2, v2, n3, v3), n4, v4)

\* "PhoneNumber2", "PhoneNumber3"
PHONE_NUMBER_2 == PHONE_NUMBER_TAG_NAME \o <<50>>
PHONE_NUMBER_3 == PHONE_NUMBER_TAG_NAME \o <<51>>

\* A store for listing and searching: titles out of order ("b" before "B"), a
\* protected phone number, an entry without a title two groups deep, one entry
\* never committed and one whose last snapshot is stale.
ListingStore ==
    <<Committed(1, Fields4(NAME_TAG_NAME, Unprotected(<<98>>),
                           NICKNAME_TAG_NAME, Unprotected(<<65, 108>>),
                           PHONE_NUMBER_TAG_NAME, Unprotected(<<53>>),
                           EMAIL_TAG_NAME, Unprotected(<<101>>)),
                <<<<102>>>>),
      GroupNode(<<EntryNode(2, Fields2(NAME_TAG_NAME, Unprotected(<<66>>),
                                       PHONE_NUMBER_TAG_NAME, Protected(<<55>>)),
                            <<<<102>>, <<103>>>>, <<>>),
                  GroupNode(<<EntryNode(3, Fields1(PHONE_NUMBER_TAG_NAME, Unprotected(<<53>>)),
                                        <<>>,
                                        <<[fields |-> Fields1(PHONE_NUMBER_TAG_NAME,
                                                              Unprotected(<<54>>)),
                                           tags |-> <<>>]>>)>>)>>)>>

\* A store for the export: a protected title, a protected e-mail, numbered
\* phone numbers, a protected note, and, two groups deep beside an empty group,
\* an entry without a phone number.
ProtectedStore ==
    <<Committed(1, Fields3(NAME_TAG_NAME, Protected(<<83>>),
                           PHONE_NUMBER_TAG_NAME, Unprotected(<<53>>),
                           NOTES_TAG_NAME, Protected(<<110>>)),
                <<>>),
      Committed(2, Fields4(NAME_TAG_NAME, Unprotected(<<97>>),
                           PHONE_NUMBER_TAG_NAME, Unprotected(<<53, 53>>),
                           EMAIL_TAG_NAME, Protected(<<109>>),
                           PHONE_NUMBER_2, Unprotected(<<54>>)),
                <<>>),
      GroupNode(<<GroupNode(<<>>),
                  GroupNode(<<Committed(3, Fields3(NAME_TAG_NAME, Unprotected(<<99>>),
                                                   EMAIL_TAG_NAME, Unprotected(<<101>>),
                                                   PHONE_NUMBER_3, Unprotected(<<55>>)),
                                        <<<<102>>>>)>>)>>)>>

\* A store for the notes: a note of two lines, one ending in a space, and one
\* holding a backslash and an n, on an entry whose phone number "5A" has a letter.
NotesStore ==
    <<Committed(1, Fields2(NAME_TAG_NAME, Unprotected(<<97>>),
                           NOTES_TAG_NAME, Unprotected(<<120, LF, 121>>)),
                <<>>),
      Committed(2, Fields2(NAME_TAG_NAME, Unprotected(<<98>>),
                           NOTES_TAG_NAME, Unprotected(<<120, SPACE>>)),
                <<>>),
      Committed(3, Fields3(NAME_TAG_NAME, Unprotected(<<99>>),
                           NOTES_TAG_NAME, Unprotected(<<120, BACKSLASH, LOWER_N, 121>>),
                           PHONE_NUMBER_TAG_NAME, Unprotected(<<53, 65>>)),
                <<>>)>>

InitStores == {ListingStore, ProtectedStore, NotesStore}

\* The export path of the model, "p", absent, empty, or holding older content.
ExportPath == <<112>>
InitFiles ==
    {[exists |-> FALSE, data |-> <<>>],
     [exists |-> TRUE, data |-> <<>>],
     [exists |-> TRUE, data |-> [i \in 1..OldFileLen |-> 120]]}

Init ==
    /\ state = "Idle"
    /\ exitKind = "none"
    /\ db = <<>>
    /\ stored \in InitStores
    /\ files \in [{ExportPath} -> InitFiles]
    /\ steps = 0
    /\ cmd = NoLine
    /\ out = <<>>
    /\ save = "none"
    /\ editor = NoEditor

(* ------------------------------ inputs -------------------------------- *)

\* The ids typed: those of the stored entries, and the one an added entry gets.
IdInputs == {UuidToString(u) : u \in 1..MaxUuid}

\* "f", "z": a tag some entries carry and one none does.
LsInputs == {<<>>, <<Opt("t", <<102>>)>>, <<Opt("t", <<122>>)>>, <<Pos(<<102>>)>>, <<Flag("t")>>}

ShowInputs ==
    {<<>>} \cup {<<Pos(id)>> : id \in IdInputs}
           \cup {<<Pos(UuidToString(1)), Pos(UuidToString(2))>>}

\* "b", "AL", "5", "5A"
SearchInputs ==
    {<<>>} \cup {<<Pos(term)>> : term \in {<<98>>, <<65, 76>>, <<53>>, <<53, 65>>}}

AddInputs == {<<>>, <<Pos(<<100>>)>>}

ExportInputs == {<<>>, <<Pos(ExportPath)>>}

EditNotesInputs == {<<>>} \cup {<<Pos(id)>> : id \in IdInputs}

\* The editor's runs: it cannot be started; it exits 1, its stderr UTF-8 or not;
\* it exits 0 and echoes its input, writes "z\ny" (escaped), or writes bytes
\* that are not UTF-8.
EditorRuns ==
    {[spawned |-> FALSE, success |-> FALSE, echo |-> FALSE, stdout |-> <<>>,
      stdout_utf8 |-> TRUE, stderr_utf8 |-> TRUE],
     [spawned |-> TRUE, success |-> FALSE, echo |-> FALSE, stdout |-> <<>>,
      stdout_utf8 |-> TRUE, stderr_utf8 |-> TRUE],
     [spawned |-> TRUE, success |-> FALSE, echo |-> FALSE, stdout |-> <<>>,
      stdout_utf8 |-> TRUE, stderr_utf8 |-> FALSE],
     [spawned |-> TRUE, success |-> TRUE, echo |-> TRUE, stdout |-> <<>>,
      stdout_utf8 |-> TRUE, stderr_utf8 |-> TRUE],
     [spawned |-> TRUE, success |-> TRUE, echo |-> FALSE,
      stdout |-> <<122, BACKSLASH, LOWER_N, 121, LF>>,
      stdout_utf8 |-> TRUE, stderr_utf8 |-> TRUE],
     [spawned |-> TRUE, success |-> TRUE, echo |-> FALSE, stdout |-> <<>>,
      stdout_utf8 |-> FALSE, stderr_utf8 |-> TRUE]}

\* edit-field: a value missing; the notes of the first entry, to two values; a
\* field of the user's ("Pet") on the third; the phone number of the second and
\* of the entry an add creates.
EditFieldInputs ==
    {<<Pos(UuidToString(1)), Pos(NOTES_TAG_NAME)>>,
     <<Pos(UuidToString(1)), Pos(NOTES_TAG_NAME), Pos(<<120, LF, 121>>)>>,
     <<Pos(UuidToString(1)), Pos(NOTES_TAG_NAME), Pos(<<53>>)>>,
     <<Pos(UuidToString(2)), Pos(PHONE_NUMBER_TAG_NAME), Pos(<<53>>)>>,
     <<Pos(UuidToString(3)), Pos(<<80, 101, 116>>), Pos(<<53>>)>>,
     <<Pos(UuidToString(MaxUuid)), Pos(PHONE_NUMBER_TAG_NAME), Pos(<<53>>)>>}

\* The flags of edit on the first entry: none, every flag in one of two groups,
\* --tags with "a,b,c", with "f" and with "", and one that is not declared.
EditFlagInputs ==
    {<<>>, <<Opt("x", <<53>>)>>,
     <<Opt("b", <<49>>), Opt("a", <<50>>), Opt("e", <<51>>)>>,
     <<Opt("n", <<52>>), Opt("m", <<54>>), Opt("p", <<53, 53>>)>>,
     <<Opt("t", <<97, COMMA, 98, COMMA, 99>>)>>, <<Opt("t", <<102>>)>>, <<Opt("t", <<>>)>>}

\* edit: no id; the first entry with each of the flag lists; the others with a
\* phone number and a tag.
EditInputs ==
    {<<>>} \cup {<<Pos(UuidToString(1))>> \o flags : flags \in EditFlagInputs}
           \cup {<<Pos(id), Opt("p", <<53>>), Opt("t", <<103>>)>> : id \in IdInputs \ {UuidToString(1)}}

\* "foo"
UnknownNames == {<<102, 111, 111>>}

Next ==
    \/ \E opened \in BOOLEAN : OpenStore(opened)
    \/ \E kind \in {"CTRL-C", "CTRL-D", "Error: {:?}"} : ReadlineError(kind)
    \/ SplitError
    \/ EmptyLine
    \/ \E args \in LsInputs : Ls(args)
    \/ \E args \in ShowInputs, descending \in BOOLEAN : Show(args, descending)
    \/ \E args \in SearchInputs : Search(args)
    \/ \E args \in AddInputs, uuid \in 1..MaxUuid, outcome \in SaveOutcomes :
           Add(args, uuid, outcome)
    \/ \E args \in ExportInputs, writable \in BOOLEAN : ExportVcard(args, writable)
    \/ \E args \in EditNotesInputs, run \in EditorRuns, outcome \in SaveOutcomes :
           EditNotesCommand(args, run, outcome)
    \/ \E args \in EditFieldInputs, outcome \in SaveOutcomes : EditField(args, outcome)
    \/ \E args \in EditInputs, outcome \in SaveOutcomes : Edit(args, outcome)
    \/ \E args \in {<<>>} : Help(args)
    \/ \E args \in {<<>>} : QuestionMark(args)
    \/ \E args \in {<<>>} : Exit(args)
    \/ \E name \in UnknownNames, args \in {<<>>, <<Pos(<<53>>)>>} : InvalidCommand(name, args)

Spec == Init /\ [][Next]_vars

(* ------------------------------ claims -------------------------------- *)

\* The entries of a tree at any depth, in pre-order.
RECURSIVE Entries(_)
Entries(nodes) ==
    IF nodes = <<>> THEN <<>>
    ELSE (IF Head(nodes).kind = "Group" THEN Entries(Head(nodes).children)
          ELSE <<Head(nodes)>>)
         \o Entries(Tail(nodes))

\* The step read a line (every command advances steps; opening the store does not).
ReadsLine == steps' = steps + 1

\* The positional arguments and the options each command declares.
DeclaredPositionals(name) ==
    CASE name = CMD_LS -> 0
      [] name = CMD_EDIT_FIELD -> 3
      [] OTHER -> 1

DeclaredOptions(name) ==
    CASE name = CMD_LS -> {"t"}
      [] name = CMD_EDIT -> {"b", "a", "m", "n", "p", "t", "e"}
      [] OTHER -> {}

\* The commands that take arguments.
ArgumentCommands ==
    {CMD_LS, CMD_SHOW, CMD_SEARCH, CMD_ADD, CMD_EXPORT_VCARD, CMD_EDIT_NOTES,
     CMD_EDIT_FIELD, CMD_EDIT}

\* The arguments of a line fit its command.
WellFormed(line) ==
    /\ line.quotes_ok
    /\ line.name \in ArgumentCommands
    /\ Len(Positionals(line.args)) = DeclaredPositionals(line.name)
    /\ \A i \in 1..Len(line.args) :
           /\ line.args[i].kind # "flag"
           /\ line.args[i].kind = "opt" => line.args[i].name \in DeclaredOptions(line.name)
    /\ \A i, j \in 1..Len(line.args) :
           (line.args[i].kind = "opt" /\ line.args[j].kind = "opt" /\ i # j)
               => line.args[i].name # line.args[j].name

\* A line that is a user input error: unbalanced quotes, an unknown command, or
\* arguments that do not fit the command.
UserInputError(line) ==
    \/ ~line.quotes_ok
    \/ line.name # <<>> /\ line.name \notin CommandNames
    \/ line.name \in ArgumentCommands /\ ~WellFormed(line)

\* C1 (as claimed): a line that is a user input error is reported, changes
\* nothing (tree, store, files, no save, no editor, nothing of the command's
\* normal output) and leaves the session awaiting input.
C1_InputErrorsNeverEndTheSession ==
    [][(ReadsLine /\ UserInputError(cmd'))
          => /\ state' = "AwaitingInput"
             /\ Len(out') = 1
             /\ db' = db /\ stored' = stored /\ files' = files
             /\ save' = "none" /\ editor' = NoEditor]_vars

\* C2 (as claimed): a persistence request that fails is reported and leaves the
\* session awaiting input, the edit still applied in memory.
C2_SaveFailureIsRecoverable ==
    save \in {"open_failed", "save_failed"}
        => state = "AwaitingInput" /\ out # <<>> /\ db # stored

ModifiedLine == Line("The entry was modified. Saving the database.", <<>>)
NotModifiedLine == Line("The entry was not modified.", <<>>)

\* The step is an edit command, on an entry of the tree, that made its edit:
\* edit and edit-field always do, edit-notes when the editor returned a text.
EditsAnEntry ==
    /\ ReadsLine
    /\ WellFormed(cmd')
    /\ \/ cmd'.name \in {CMD_EDIT, CMD_EDIT_FIELD}
       \/ cmd'.name = CMD_EDIT_NOTES /\ editor'.status = "ok"
    /\ GetEntryByUuid(db, Positionals(cmd'.args)[1]) # <<>>

\* C3: an edit command that made its edit requests a save exactly when the
\* entry's fields and tags then differ from its last snapshot (or it has none),
\* records the new snapshot exactly then, and says "modified" exactly then; the
\* same edit-field line read twice in a row requests no save the second time.
C3_SaveIffEntryChanged ==
    [][EditsAnEntry =>
          LET path == GetEntryByUuid(db, Positionals(cmd'.args)[1])
              before == NodeAt(db, path)
              after == NodeAt(db', path)
              differs == before.history = <<>> \/ before.history[1] # Snapshot(after)
          IN  /\ (save' # "none") <=> differs
              /\ out' = IF differs THEN <<ModifiedLine>> ELSE <<NotModifiedLine>>
              /\ after.history = IF differs THEN <<Snapshot(after)>> \o before.history
                                 ELSE before.history
              /\ (cmd'.name = CMD_EDIT_FIELD /\ cmd' = cmd)
                     => save' = "none" /\ out' = <<NotModifiedLine>>]_vars

\* C3's case: edit-field <first entry> Notes "5" read a second time, after the
\* first reading changed the note and was persisted, is not modified.
C3_Witness ==
    /\ steps = 2
    /\ cmd = InputLine(CMD_EDIT_FIELD,
                       <<Pos(UuidToString(1)), Pos(NOTES_TAG_NAME), Pos(<<53>>)>>)
    /\ out = <<NotModifiedLine>>
    /\ save = "none"
    /\ stored = db
    /\ Len(db[1].history) = 2
    /\ db[1].history[1] # db[1].history[2]
    /\ db[1].history[1].fields =
           Insert(db[1].history[2].fields, NOTES_TAG_NAME, Unprotected(<<53>>))

ExportedLine == Line("The contacts were exported to {}", <<ExportPath>>)

\* The last command was an export-vcard that succeeded.
Exported == cmd.name = CMD_EXPORT_VCARD /\ out = <<ExportedLine>>

\* C4 (as claimed): after export-vcard succeeds, the file holds exactly the
\* encoding of the tree, whatever it held before.
C4_ExportFileIsExactlyTheEncoding ==
    Exported => files[ExportPath] = [exists |-> TRUE, data |-> DumpGroupToVcard(db)]

\* The lines of a record, without their line ends.
\* "BEGIN:VCARD"
C5_BEGIN == <<66, 69, 71, 73, 78, 58, 86, 67, 65, 82, 68>>
\* "VERSION:4.0"
C5_VERSION == <<86, 69, 82, 83, 73, 79, 78, 58, 52, 46, 48>>
\* "UID:urn:uuid:"
C5_UID == <<85, 73, 68, 58, 117, 114, 110, 58, 117, 117, 105, 100, 58>>
\* "FN:"
C5_FN == <<70, 78, 58>>
\* "TEL:"
C5_TEL == <<84, 69, 76, 58>>
\* "EMAIL:"
C5_EMAIL == <<69, 77, 65, 73, 76, 58>>
\* "END:VCARD"
C5_END == <<69, 78, 68, 58, 86, 67, 65, 82, 68>>

\* The record the claim describes for an entry, or nothing.
C5_Record(entry) ==
    IF \/ NAME_TAG_NAME \notin DOMAIN entry.fields
       \/ PHONE_NUMBER_TAG_NAME \notin DOMAIN entry.fields
       \/ entry.fields[PHONE_NUMBER_TAG_NAME].prot
    THEN None
    ELSE Some(Join(<<C5_BEGIN, C5_VERSION,
                     C5_UID \o UuidToString(entry.uuid),
                     C5_FN \o entry.fields[NAME_TAG_NAME].text,
                     C5_TEL \o entry.fields[PHONE_NUMBER_TAG_NAME].text>>
                   \o (IF EMAIL_TAG_NAME \in DOMAIN entry.fields
                          /\ ~entry.fields[EMAIL_TAG_NAME].prot
                       THEN <<C5_EMAIL \o entry.fields[EMAIL_TAG_NAME].text>> ELSE <<>>)
                   \o <<C5_END, <<>>, <<>>>>,
                   <<LF>>))

\* C5: for every entry of the tree, dump_entry_to_vcard gives nothing when the
\* entry has no Title, no PhoneNumber or a protected PhoneNumber, and otherwise
\* the one record BEGIN:VCARD, VERSION:4.0, UID, FN, TEL, EMAIL if an unprotected
\* Email exists, END:VCARD and a blank line.
C5_EncodeEntry ==
    \A i \in 1..Len(Entries(db)) :
        DumpEntryToVcard(Entries(db)[i]) = C5_Record(Entries(db)[i])

\* C5's case: an export of a tree holding an entry encoded with its EMAIL line,
\* one dropped for its protected phone number and one dropped for having no title.
C5_Witness ==
    /\ Exported
    /\ \E i, j, k \in 1..Len(Entries(db)) :
           /\ DumpEntryToVcard(Entries(db)[i]).some
           /\ Contains(DumpEntryToVcard(Entries(db)[i]).val, C5_EMAIL)
           /\ PHONE_NUMBER_TAG_NAME \in DOMAIN Entries(db)[j].fields
           /\ Entries(db)[j].fields[PHONE_NUMBER_TAG_NAME].prot
           /\ ~DumpEntryToVcard(Entries(db)[j]).some
           /\ NAME_TAG_NAME \notin DOMAIN Entries(db)[k].fields
           /\ ~DumpEntryToVcard(Entries(db)[k]).some

\* A tree with the text of every protected value replaced by secret.
RECURSIVE WithSecrets(_, _)
WithSecrets(nodes, secret) ==
    [i \in 1..Len(nodes) |->
        IF nodes[i].kind = "Group"
        THEN [nodes[i] EXCEPT !.children = WithSecrets(@, secret)]
        ELSE [nodes[i] EXCEPT !.fields =
                 [k \in DOMAIN @ |-> IF @[k].prot THEN Protected(secret) ELSE @[k]]]]

\* C6 (as claimed): the export does not depend on what the protected values
\* hold: the tree with other protected contents encodes to the same text.
C6_ExportHidesProtectedValues ==
    Exported => DumpGroupToVcard(db) = DumpGroupToVcard(WithSecrets(db, <<42>>))

\* The notes edit-notes seeds the editor with: the entry's Notes, or "".
SeedNotes(entry) ==
    IF NOTES_TAG_NAME \in DOMAIN entry.fields THEN entry.fields[NOTES_TAG_NAME].text ELSE <<>>

\* The step is an edit-notes that started the editor and wrote to it.
WritesToEditor ==
    /\ ReadsLine
    /\ cmd'.name = CMD_EDIT_NOTES
    /\ editor'.status \in {"failed", "bad_output", "ok"}

\* C7 (as claimed): the editor is sent the notes with every newline replaced by
\* a backslash and an n and nothing else, and when it returns what it was sent
\* the entry's Notes end up the text they were.
C7_EditorRoundTrip ==
    [][WritesToEditor =>
          LET path == GetEntryByUuid(db, Positionals(cmd'.args)[1])
              notes == SeedNotes(NodeAt(db, path))
          IN  /\ editor'.input = Join(Split(notes, <<LF>>), <<BACKSLASH, LOWER_N>>)
              /\ (editor'.status = "ok" /\ editor'.stdout = editor'.input)
                     => NodeAt(db', path).fields[NOTES_TAG_NAME] = Unprotected(notes)]_vars

LsLine(entry) == Line("{} {}", <<UuidToString(entry.uuid), entry.fields[NAME_TAG_NAME].text>>)

\* C9: ls prints, and does not fail; its lines are those of the entries that
\* have a Title (and carry the tag, when one is given), each once, in
\* non-decreasing Title order; no entry without a Title is handed to the sort.
C9_LsListsTitledEntriesSorted ==
    (cmd.name = CMD_LS /\ WellFormed(cmd)) =>
        LET tag == GetOne(cmd.args, "t")
            all == Entries(db)
            wanted == {i \in 1..Len(all) :
                          /\ NAME_TAG_NAME \in DOMAIN all[i].fields
                          /\ tag.some => \E t \in 1..Len(all[i].tags) : all[i].tags[t] = tag.val}
            sorted == GetMatchingEntries(db, tag)
        IN  /\ state = "AwaitingInput"
            /\ Len(out) = Cardinality(wanted)
            /\ \A i \in wanted : Cardinality({k \in 1..Len(out) : out[k] = LsLine(all[i])}) = 1
            /\ \A k \in 1..Len(out) : \E i \in wanted : out[k] = LsLine(all[i])
            /\ \A j, k \in 1..Len(out) : j < k => StrLeq(out[j].args[2], out[k].args[2])
            /\ \A k \in 1..Len(sorted) : NAME_TAG_NAME \in DOMAIN sorted[k].fields

\* C9's case: ls of a tree that holds an entry without a title in a nested
\* group prints "B" before "b", the reverse of their order in the tree.
C9_Witness ==
    /\ cmd = InputLine(CMD_LS, <<>>)
    /\ out = <<Line("{} {}", <<UuidToString(2), <<66>>>>),
               Line("{} {}", <<UuidToString(1), <<98>>>>)>>
    /\ \E i \in 1..Len(Entries(db)) : NAME_TAG_NAME \notin DOMAIN Entries(db)[i].fields
    /\ db[1].uuid = 1

\* The field each flag of edit sets.
C10_FieldOfFlag ==
    [flag \in {"b", "a", "e", "p", "m", "n"} |->
        CASE flag = "b" -> BIRTH_DATE_TAG_NAME
          [] flag = "a" -> ADDRESS_TAG_NAME
          [] flag = "e" -> EMAIL_TAG_NAME
          [] flag = "p" -> PHONE_NUMBER_TAG_NAME
          [] flag = "m" -> MATRIX_ID_TAG_NAME
          [] flag = "n" -> NICKNAME_TAG_NAME]

\* C10: edit on an entry of the tree sets the field of each flag given to the
\* flag's value, unprotected; --tags replaces the tags by the value split on
\* commas ("a,b,c" gives a, b, c); the other fields, the tags without --tags,
\* the entry's id and everything else in the tree stay as they were.
C10_EditAppliesExactlyTheFlags ==
    [][(/\ ReadsLine
        /\ cmd'.name = CMD_EDIT
        /\ WellFormed(cmd')
        /\ GetEntryByUuid(db, Positionals(cmd'.args)[1]) # <<>>)
          => LET args == cmd'.args
                 path == GetEntryByUuid(db, Positionals(args)[1])
                 before == NodeAt(db, path)
                 after == NodeAt(db', path)
                 given == {flag \in DOMAIN C10_FieldOfFlag : GetOne(args, flag).some}
                 written == {C10_FieldOfFlag[flag] : flag \in given}
             IN  /\ DOMAIN after.fields = (DOMAIN before.fields) \cup written
                 /\ \A flag \in given :
                        after.fields[C10_FieldOfFlag[flag]] = Unprotected(GetOne(args, flag).val)
                 /\ \A k \in (DOMAIN before.fields) \ written :
                        after.fields[k] = before.fields[k]
                 /\ after.tags = IF GetOne(args, "t").some
                                 THEN Split(GetOne(args, "t").val, <<COMMA>>)
                                 ELSE before.tags
                 /\ GetOne(args, "t") = Some(<<97, COMMA, 98, COMMA, 99>>)
                        => after.tags = <<<<97>>, <<98>>, <<99>>>>
                 /\ after.uuid = before.uuid
                 /\ ReplaceAt(db', path, before) = db]_vars

\* C10's case: edit --tags "a,b,c" on the first entry, which carried the tag
\* "f", leaves it with the tags a, b, c and its fields as they were.
C10_Witness ==
    /\ cmd = InputLine(CMD_EDIT, <<Pos(UuidToString(1)), Opt("t", <<97, COMMA, 98, COMMA, 99>>)>>)
    /\ db[1].tags = <<<<97>>, <<98>>, <<99>>>>
    /\ Len(db[1].history) = 2
    /\ db[1].history[2].tags = <<<<102>>>>
    /\ db[1].fields = db[1].history[2].fields

C12_HelpAndQuestionMarkPrintTheSummary ==
    [][(ReadsLine /\ cmd'.quotes_ok /\ cmd'.name \in {CMD_HELP, CMD_QUESTION})
          => /\ out' = AvailableCommands
             /\ db' = db /\ stored' = stored
             /\ save' = "none"
             /\ state' = "AwaitingInput"]_vars

\* The matches the claim describes for one entry, each the entry's id and the
\* label of the field: Title and Nickname compared without case, PhoneNumber
\* with the term as typed.
C13_Matches(entry, term) ==
    LET has(k) == k \in DOMAIN entry.fields
        id == UuidToString(entry.uuid)
    IN  (IF has(NAME_TAG_NAME)
            /\ Contains(ToLower(entry.fields[NAME_TAG_NAME].text), ToLower(term))
         THEN <<<<id, NAME_TAG_NAME>>>> ELSE <<>>)
        \o
        (IF has(NICKNAME_TAG_NAME)
            /\ Contains(ToLower(entry.fields[NICKNAME_TAG_NAME].text), ToLower(term))
         THEN <<<<id, NICKNAME_TAG_NAME>>>> ELSE <<>>)
        \o
        (IF has(PHONE_NUMBER_TAG_NAME)
            /\ Contains(entry.fields[PHONE_NUMBER_TAG_NAME].text, term)
         THEN <<<<id, PHONE_NUMBER_TAG_NAME>>>> ELSE <<>>)

\* The matches of the entries e[i..], in order.
RECURSIVE C13_MatchesFrom(_, _, _)
C13_MatchesFrom(e, i, term) ==
    IF i > Len(e) THEN <<>>
    ELSE C13_Matches(e[i], term) \o C13_MatchesFrom(e, i + 1, term)

\* The id a line of search reports: the first value of a title line, the second
\* of the others.
C13_ReportedId(line) == IF Len(line.args) = 2 THEN line.args[1] ELSE line.args[2]

\* The last command was a search with a term.
Searched == cmd.name = CMD_SEARCH /\ WellFormed(cmd)

\* C13 (as claimed): search prints, in pre-order, one line per entry and field
\* among Title, Nickname and PhoneNumber whose value contains the term (phone
\* numbers compared with the term as typed), and each line carries the entry's
\* id and the label of the field that matched.
C13_SearchReportsEveryMatch ==
    Searched =>
        LET expected == C13_MatchesFrom(Entries(db), 1, Positionals(cmd.args)[1])
        IN  /\ Len(out) = Len(expected)
            /\ \A k \in 1..Len(out) :
                   /\ C13_ReportedId(out[k]) = expected[k][1]
                   /\ \E a \in 1..Len(out[k].args) : out[k].args[a] = expected[k][2]

\* The places, in pre-order, of the entries whose id prints as id.
C14_Holders(nodes, id) ==
    {i \in 1..Len(Entries(nodes)) : UuidToString(Entries(nodes)[i].uuid) = id}

\* get_entry_by_uuid gives the first entry in pre-order with the id, at any
\* depth, and no entry when none has it.
C14_LookupFindsFirst(nodes, id) ==
    LET path == GetEntryByUuid(nodes, id)
        holders == C14_Holders(nodes, id)
    IN  IF holders = {} THEN path = <<>>
        ELSE /\ path # <<>>
             /\ \E i \in holders :
                    /\ \A j \in holders : i <= j
                    /\ NodeAt(nodes, path) = Entries(nodes)[i]

\* C14 (as claimed): lookup by id gives the first entry in pre-order with that
\* id, or no entry; show with an id no entry has prints that it was not found;
\* show with any id leaves the tree as it was and the session awaiting input.
C14_ShowNeverFails ==
    [][(ReadsLine /\ cmd'.name = CMD_SHOW /\ WellFormed(cmd')) =>
          LET id == Positionals(cmd'.args)[1]
          IN  /\ \A any \in IdInputs : C14_LookupFindsFirst(db, any)
              /\ C14_Holders(db, id) = {}
                     => out' = <<Line("Could not find entry {}", <<id>>)>>
              /\ db' = db /\ stored' = stored
              /\ state' = "AwaitingInput"]_vars

\* The records of the entries e[i..], one after the other: the record of each
\* entry that dump_entry_to_vcard gives one, nothing for the others.
RECURSIVE C15_RecordsFrom(_, _)
C15_RecordsFrom(e, i) ==
    IF i > Len(e) THEN <<>>
    ELSE (IF DumpEntryToVcard(e[i]).some THEN DumpEntryToVcard(e[i]).val ELSE <<>>)
         \o C15_RecordsFrom(e, i + 1)

\* C15: dump_group_to_vcard on the root gives the records of the tree's entries
\* in pre-order, groups adding nothing of their own and entries of sub-groups
\* at any depth included; export-vcard writes that text from the start of the
\* file, leaves the tree as it was, and an export right after an export leaves
\* the file as it was.
C15_EncodeTree ==
    [][(ReadsLine /\ cmd'.name = CMD_EXPORT_VCARD /\ WellFormed(cmd')) =>
          LET encoding == C15_RecordsFrom(Entries(db), 1)
          IN  /\ DumpGroupToVcard(db) = encoding
              /\ db' = db /\ stored' = stored
              /\ out' = <<ExportedLine>> =>
                     /\ Len(files'[ExportPath].data) >= Len(encoding)
                     /\ SubSeq(files'[ExportPath].data, 1, Len(encoding)) = encoding
              /\ (Exported /\ out' = <<ExportedLine>>) => files' = files]_vars

\* C15's case: an export, after an edit that made an entry two groups deep
\* encodable, wrote the records of two entries of the root group followed by
\* the record of the nested entry, and nothing for the empty group.
C15_Witness ==
    /\ Exported
    /\ steps = 2
    /\ Len(db) = 3
    /\ db[1].kind = "Entry" /\ DumpEntryToVcard(db[1]).some
    /\ db[2].kind = "Entry" /\ DumpEntryToVcard(db[2]).some
    /\ db[3].kind = "Group"
    /\ db[3].children[1] = GroupNode(<<>>)
    /\ db[3].children[2].kind = "Group"
    /\ DumpEntryToVcard(db[3].children[2].children[1]).some
    /\ files[ExportPath].data = DumpEntryToVcard(db[1]).val
                                \o DumpEntryToVcard(db[2]).val
                                \o DumpEntryToVcard(db[3].children[2].children[1]).val

====
